---- MODULE Spec2Model ----
(***************************************************************************)
(* A model of the Brainfuck interpreter of src/src/main.rs: the struct     *)
(* Brainfuck (tape, pointer, program counter, loop stack, line and column) *)
(* and its method run(), one action per arm of run's match.                *)
(*                                                                         *)
(* Offsets are as in the source: pc, mem_ptr and the indices into stack    *)
(* count from 0, so the character at offset i is prog[i + 1] and the       *)
(* vector element at index i is stack[i + 1].                              *)
(***************************************************************************)
EXTENDS Integers, Sequences, FiniteSets, TLC

VARIABLES
    prog,       \* Brainfuck.prog: the program's characters
    mem,        \* Brainfuck.mem: the tape
    mem_ptr,    \* Brainfuck.mem_ptr
    pc,         \* Brainfuck.pc
    stack,      \* Brainfuck.stack: the flat vector of (pc, lin, col) triples
    sp,         \* Brainfuck.sp
    lin,        \* Brainfuck.lin
    col,        \* Brainfuck.col
    ins,        \* run's local `ins`: the instruction pulled last ("" before the first)
    status,     \* run's local `status`: the Result of the arm executed last
    phase,      \* where run() is: "running", "done" (loop left on None),
                \* "error" (loop left after the report), "panic" (the process aborted)
    report,     \* the error lines printed by line 290, each [msg, lin, col]
    out,        \* the values printed by the '.' arm
    stdin_read, \* the bytes read_exact has delivered so far
    build       \* the build profile, which decides what an integer overflow does

vars == <<prog, mem, mem_ptr, pc, stack, sp, lin, col, ins, status, phase,
          report, out, stdin_read, build>>

-----------------------------------------------------------------------------
(* Bounds of the model.                                                    *)

\* Programs of every length up to MaxLen over Alphabet are run.
MaxLen == 3
\* The tape has MemSize cells (30000 in the source, lines 36 and 50).
MemSize == 3
\* Cells are unsigned integers of CellBits bits (u32 in the source, line 36).
CellBits == 9
\* sp is a signed integer of SpBits bits (i16 in the source, line 41).
SpBits == 4
\* At most MaxOut values are printed, at most MaxIn bytes are on standard input.
MaxOut == 3
MaxIn == 2
\* Programs made of brackets alone, of every length up to MaxBrackets, are run.
MaxBrackets == 6

\* u32::max_value(), i16::max_value() and the i16 modulus at the model's widths.
U32Max == 2^CellBits - 1
I16Max == 2^(SpBits - 1) - 1
I16Mod == 2^SpBits

\* '\n' as u8 (line 278) and the largest u8.
NewlineByte == 10
U8Max == 255

\* The characters main.rs tells apart: the eight instructions, the newline
\* and one character that is neither.
Instructions == {"<", ">", "+", "-", ".", ",", "[", "]"}
Alphabet == Instructions \cup {"\n", "x"}

\* The bytes standard input may hold.
InputBytes == {0, 1, NewlineByte, U8Max}

\* The two build profiles: integer overflow panics in one and wraps in the other.
Builds == {"debug", "release"}

-----------------------------------------------------------------------------
(* Result<(), &'static str>                                                *)

Ok == [ok |-> TRUE, msg |-> ""]
Err(m) == [ok |-> FALSE, msg |-> m]

-----------------------------------------------------------------------------
(* Helpers of the struct. Each takes the struct (`self`, a record of its   *)
(* fields) and returns the struct it leaves and its return value.          *)

\* Brainfuck::new: the struct after construction.
new(prog_str) ==
    [mem |-> [i \in 0..(MemSize - 1) |-> 0],
     mem_ptr |-> 0,
     prog |-> prog_str,
     pc |-> 0,
     stack |-> <<>>,
     sp |-> -1,
     lin |-> 1,
     col |-> 1]

read_cell(self) == self.mem[self.mem_ptr]

write_to_cell(self, val) == [self EXCEPT !.mem[self.mem_ptr] = val]

\* A faulty stack_push, which C8 must tell from the real one: the capacity
\* test is off by one and lets sp pass I16Max.
stack_push_late_check(self) ==
    IF self.sp > I16Max
    THEN [self |-> self, st |-> Err("Nested loop limit reached.")]
    ELSE [self |-> [self EXCEPT !.sp = self.sp + 1,
                                !.stack = self.stack \o <<self.pc, self.lin, self.col>>],
          st |-> Ok]

stack_push(self) ==
    IF self.sp = I16Max
    THEN [self |-> self, st |-> Err("Nested loop limit reached.")]
    ELSE [self |-> [self EXCEPT !.sp = self.sp + 1,
                                !.stack = self.stack \o <<self.pc, self.lin, self.col>>],
          st |-> Ok]

stack_pop(self) ==
    IF self.sp < 0
    THEN [self |-> self, st |-> Err("Unpaired ']'.")]
    ELSE [self |-> [self EXCEPT !.stack = SubSeq(self.stack, 1, Len(self.stack) - 3),
                                !.sp = self.sp - 1],
          st |-> Ok]

\* An i16 value after wrapping arithmetic.
I16Wrap(x) == ((x + I16Mod \div 2) % I16Mod) - I16Mod \div 2

\* `self.stack[(self.sp * 3 + k) as usize]` under build profile b: the i16
\* sum panics on overflow in a debug build and wraps in a release build; a
\* negative i16 cast to usize is beyond every vector, and indexing beyond the
\* vector panics.
stack_at(self, k, b) ==
    LET sum == self.sp * 3 + k
        idx == I16Wrap(sum)
    IN  IF sum > I16Max /\ b = "debug"
        THEN [panic |-> TRUE, val |-> 0]
        ELSE IF idx < 0 \/ idx >= Len(self.stack)
             THEN [panic |-> TRUE, val |-> 0]
             ELSE [panic |-> FALSE, val |-> self.stack[idx + 1]]

\* stack_peek under build profile b: kind is "ok" (the triple follows), "err"
\* (the empty stack) or "panic".
stack_peek(self, b) ==
    IF self.sp >= 0
    THEN LET p0 == stack_at(self, 0, b)
             p1 == stack_at(self, 1, b)
             p2 == stack_at(self, 2, b)
         IN  IF p0.panic \/ p1.panic \/ p2.panic
             THEN [kind |-> "panic", pc |-> 0, lin |-> 0, col |-> 0]
             ELSE [kind |-> "ok", pc |-> p0.val, lin |-> p1.val, col |-> p2.val]
    ELSE [kind |-> "err", pc |-> 0, lin |-> 0, col |-> 0]

\* A faulty scanner, which C12 must tell from the real one: a newline counts
\* as a column like any skipped character.
RECURSIVE next_instruction_no_reset(_)
next_instruction_no_reset(self) ==
    IF self.pc < Len(self.prog)
    THEN LET c == self.prog[self.pc + 1] IN
         IF c \in Instructions
         THEN [self |-> [self EXCEPT !.pc = self.pc + 1, !.col = self.col + 1],
               some |-> TRUE, ch |-> c]
         ELSE IF c = "\n"
              THEN next_instruction_no_reset([self EXCEPT !.pc = self.pc + 1,
                                                          !.lin = self.lin + 1,
                                                          !.col = self.col + 1])
              ELSE next_instruction_no_reset([self EXCEPT !.pc = self.pc + 1,
                                                          !.col = self.col + 1])
    ELSE [self |-> self, some |-> FALSE, ch |-> ""]

\* A faulty scanner, which C19 must tell from the real one: the offset is not
\* moved past the instruction that is returned.
RECURSIVE next_instruction_rescan(_)
next_instruction_rescan(self) ==
    IF self.pc < Len(self.prog)
    THEN LET c == self.prog[self.pc + 1] IN
         IF c \in Instructions
         THEN [self |-> [self EXCEPT !.col = self.col + 1],
               some |-> TRUE, ch |-> c]
         ELSE IF c = "\n"
              THEN next_instruction_rescan([self EXCEPT !.pc = self.pc + 1,
                                                        !.lin = self.lin + 1,
                                                        !.col = 1])
              ELSE next_instruction_rescan([self EXCEPT !.pc = self.pc + 1,
                                                        !.col = self.col + 1])
    ELSE [self |-> self, some |-> FALSE, ch |-> ""]

\* The scanner: the struct when next_instruction returns, and what it returns
\* (some = FALSE is None).
RECURSIVE next_instruction(_)
next_instruction(self) ==
    IF self.pc < Len(self.prog)
    THEN LET c == self.prog[self.pc + 1] IN
         IF c \in Instructions
         THEN [self |-> [self EXCEPT !.pc = self.pc + 1, !.col = self.col + 1],
               some |-> TRUE, ch |-> c]
         ELSE IF c = "\n"
              THEN next_instruction([self EXCEPT !.pc = self.pc + 1,
                                                 !.lin = self.lin + 1,
                                                 !.col = 1])
              ELSE next_instruction([self EXCEPT !.pc = self.pc + 1,
                                                 !.col = self.col + 1])
    ELSE [self |-> self, some |-> FALSE, ch |-> ""]

\* A faulty locator, which C11 must tell from the real one: nested '[' are not
\* counted and the first ']' is returned.
RECURSIVE ending_bracket_first_close(_, _, _)
ending_bracket_first_close(p, i, opening_brackets) ==
    IF i < Len(p)
    THEN IF p[i + 1] = "]"
         THEN [some |-> TRUE, val |-> i]
         ELSE ending_bracket_first_close(p, i + 1, opening_brackets)
    ELSE [some |-> FALSE, val |-> 0]

\* The loop of check_ending_bracket from index i with the given count.
RECURSIVE ending_bracket_from(_, _, _)
ending_bracket_from(p, i, opening_brackets) ==
    IF i < Len(p)
    THEN LET c == p[i + 1] IN
         IF c = "]"
         THEN IF opening_brackets = 0
              THEN [some |-> TRUE, val |-> i]
              ELSE ending_bracket_from(p, i + 1, opening_brackets - 1)
         ELSE IF c = "["
              THEN ending_bracket_from(p, i + 1, opening_brackets + 1)
              ELSE ending_bracket_from(p, i + 1, opening_brackets)
    ELSE [some |-> FALSE, val |-> 0]

check_ending_bracket(self) == ending_bracket_from(self.prog, self.pc, 0)

-----------------------------------------------------------------------------
(* The arms of run's match. Each takes the struct as next_instruction left *)
(* it and returns the struct it leaves and its Result.                     *)

\* '<'
LeftArm(self) ==
    IF self.mem_ptr = 0
    THEN [self |-> self, st |-> Err("Tried to access memory out of range (underflow)")]
    ELSE [self |-> [self EXCEPT !.mem_ptr = self.mem_ptr - 1], st |-> Ok]

\* A faulty '>' arm, which C5 must tell from the real one: the pointer wraps
\* to the first cell.
RightArm_wrapping(self) ==
    IF self.mem_ptr = MemSize - 1
    THEN [self |-> [self EXCEPT !.mem_ptr = 0], st |-> Ok]
    ELSE [self |-> [self EXCEPT !.mem_ptr = self.mem_ptr + 1], st |-> Ok]

\* '>'
RightArm(self) ==
    IF self.mem_ptr = MemSize - 1
    THEN [self |-> self, st |-> Err("Tried to access memory out of range (overflow)")]
    ELSE [self |-> [self EXCEPT !.mem_ptr = self.mem_ptr + 1], st |-> Ok]

\* A faulty '+' arm, which C7 must tell from the real one: no test of the
\* maximum.
IncArm_unchecked(self) ==
    [self |-> write_to_cell(self, read_cell(self) + 1), st |-> Ok]

\* '+'
IncArm(self) ==
    IF read_cell(self) = U32Max
    THEN [self |-> self, st |-> Err("Exceeded max cell value")]
    ELSE [self |-> write_to_cell(self, read_cell(self) + 1), st |-> Ok]

\* A faulty '-' arm, which C6 must tell from the real one: a cell at 0 wraps
\* to the maximum.
DecArm_wrapping(self) ==
    IF read_cell(self) = 0
    THEN [self |-> write_to_cell(self, U32Max), st |-> Ok]
    ELSE [self |-> write_to_cell(self, read_cell(self) - 1), st |-> Ok]

\* '-'
DecArm(self) ==
    IF read_cell(self) = 0
    THEN [self |-> self, st |-> Err("Cells cannot have negative values")]
    ELSE [self |-> write_to_cell(self, read_cell(self) - 1), st |-> Ok]

\* A faulty '[' arm, which C1 must tell from the real one: the skip lands on
\* the matching ']' instead of one past it.
OpenArm_jump_to_close(self) ==
    LET addr == check_ending_bracket(self) IN
    IF addr.some
    THEN IF read_cell(self) = 0
         THEN [self |-> [self EXCEPT !.pc = addr.val], st |-> Ok]
         ELSE stack_push(self)
    ELSE [self |-> self, st |-> Err("Loop not closed")]

\* A faulty '[' arm, which C4 must tell from the real one: the cell is tested
\* first and a non-zero cell pushes without looking for the matching ']'.
OpenArm_push_unmatched(self) ==
    LET addr == check_ending_bracket(self) IN
    IF read_cell(self) # 0
    THEN stack_push(self)
    ELSE IF addr.some
         THEN [self |-> [self EXCEPT !.pc = addr.val + 1], st |-> Ok]
         ELSE [self |-> self, st |-> Err("Loop not closed")]

\* '['
OpenArm(self) ==
    LET addr == check_ending_bracket(self) IN
    IF addr.some
    THEN IF read_cell(self) = 0
         THEN [self |-> [self EXCEPT !.pc = addr.val + 1], st |-> Ok]
         ELSE stack_push(self)
    ELSE [self |-> self, st |-> Err("Loop not closed")]

\* A faulty ']' arm, which C3 must tell from the real one: the cell is tested
\* first and a zero cell pops without minding an empty stack.
CloseArm_pop_ignored(self, b) ==
    LET top == stack_peek(self, b) IN
    IF read_cell(self) = 0
    THEN [self |-> stack_pop(self).self, st |-> Ok, panic |-> FALSE]
    ELSE IF top.kind = "panic"
         THEN [self |-> self, st |-> Ok, panic |-> TRUE]
         ELSE IF top.kind = "err"
              THEN [self |-> self, st |-> Err("Obsolete loop close bracket"),
                    panic |-> FALSE]
              ELSE [self |-> [self EXCEPT !.pc = top.pc, !.lin = top.lin,
                                          !.col = top.col],
                    st |-> Ok, panic |-> FALSE]

\* ']' under build profile b; panic says that the arm did not return.
CloseArm(self, b) ==
    LET top == stack_peek(self, b) IN
    IF top.kind = "panic"
    THEN [self |-> self, st |-> Ok, panic |-> TRUE]
    ELSE IF top.kind = "err"
         THEN [self |-> self, st |-> Err("Obsolete loop close bracket"), panic |-> FALSE]
         ELSE IF read_cell(self) # 0
              THEN [self |-> [self EXCEPT !.pc = top.pc, !.lin = top.lin, !.col = top.col],
                    st |-> Ok, panic |-> FALSE]
              ELSE [self |-> stack_pop(self).self, st |-> Ok, panic |-> FALSE]

\* std::char::from_u32: whether v is a Unicode scalar value.
from_u32(v) == v <= 1114111 /\ ~(55296 <= v /\ v <= 57343)

\* What print!("{}", ch) writes to standard output for the char of scalar
\* value v: its UTF-8 encoding.
utf8(v) ==
    IF v < 128
    THEN <<v>>
    ELSE IF v < 2048
         THEN <<192 + (v \div 64), 128 + (v % 64)>>
         ELSE IF v < 65536
              THEN <<224 + (v \div 4096), 128 + ((v \div 64) % 64), 128 + (v % 64)>>
              ELSE <<240 + (v \div 262144), 128 + ((v \div 4096) % 64),
                     128 + ((v \div 64) % 64), 128 + (v % 64)>>

\* A faulty '.' arm, which C14 must tell from the real one: only the upper end
\* of the scalar values is tested, so a surrogate is printed.
DotArm_surrogates(self, o) ==
    IF read_cell(self) <= 1114111
    THEN [out |-> Append(o, read_cell(self)), st |-> Ok]
    ELSE [out |-> o, st |-> Err("Could not print character")]

\* '.': o is what has been printed so far.
DotArm(self, o) ==
    IF from_u32(read_cell(self))
    THEN [out |-> Append(o, read_cell(self)), st |-> Ok]
    ELSE [out |-> o, st |-> Err("Could not print character")]

\* The reads of the ',' arm over the bytes s that standard input still holds,
\* from the i-th on: the byte kept and how many bytes were taken, or eof when
\* read_exact finds no byte (and expect panics).
RECURSIVE read_bytes(_, _)
read_bytes(s, i) ==
    IF i > Len(s)
    THEN [eof |-> TRUE, byte |-> 0, used |-> Len(s)]
    ELSE IF s[i] = NewlineByte
         THEN read_bytes(s, i + 1)
         ELSE [eof |-> FALSE, byte |-> s[i], used |-> i]

\* ',' when standard input holds s.
CommaArm(self, s) ==
    LET r == read_bytes(s, 1) IN
    IF r.eof
    THEN [self |-> self, st |-> Ok, panic |-> TRUE, used |-> r.used]
    ELSE [self |-> write_to_cell(self, r.byte), st |-> Ok, panic |-> FALSE, used |-> r.used]

\* A faulty end of the iteration, which C9 must tell from the real one: the
\* error is reported and the loop goes on.
after_arm_no_break(st, s, rep) ==
    IF ~st.ok
    THEN [phase |-> "running",
          report |-> Append(rep, [msg |-> st.msg, lin |-> s.lin, col |-> s.col])]
    ELSE [phase |-> "running", report |-> rep]

\* The end of an iteration of run's loop: on Err the report and the break.
after_arm(st, s, rep) ==
    IF ~st.ok
    THEN [phase |-> "error",
          report |-> Append(rep, [msg |-> st.msg, lin |-> s.lin, col |-> s.col])]
    ELSE [phase |-> "running", report |-> rep]

-----------------------------------------------------------------------------
(* The state machine.                                                      *)

\* The sequence of n copies of c.
Rep(c, n) == [i \in 1..n |-> c]

\* '+', then d nested loops around body.
Nested(d, body) == <<"+">> \o Rep("[", d) \o body \o Rep("]", d)

\* Every sequence of at most MaxBrackets brackets, balanced or not.
BracketStrings == UNION {[1..n -> {"[", "]"}] : n \in 0..MaxBrackets}

\* The programs run: every program of at most MaxLen characters, every
\* sequence of brackets alone and after a '+', and the programs that nest
\* loops up to and beyond the capacity of the stack (around an empty body,
\* around a '-', and after a "+-" inside the outermost loop), count a cell up
\* to its maximum and walk the pointer to the end of the tape.
Programs ==
    UNION {[1..n -> Alphabet] : n \in 0..MaxLen}
    \cup BracketStrings
    \cup {<<"+">> \o s : s \in BracketStrings}
    \cup {Nested(d, <<>>) : d \in 1..(I16Max + 2)}
    \cup {Nested(d, <<"-">>) : d \in 1..(I16Max + 1)}
    \cup {<<"+", "[", "+", "-">> \o Rep("[", I16Max - 1) \o Rep("]", I16Max)}
    \cup {<<"+", "[", "+", "]">>, <<"+", "[", ">", "+", "]">>,
          <<"+", "[", "-", "]">>, <<"+", "+", ".">>}

\* The cell values the '.' arm is applied to on its own: the ends of the
\* ranges std::char::from_u32 tells apart, and their neighbours.
PrintCells ==
    {0, 1, 127, 128, 255, 2047, 2048,
     55294, 55295, 55296, 55297, 57342, 57343, 57344, 57345,
     65535, 65536, 1114110, 1114111, 1114112, 1114113, 2147483647}

\* The programs that apply the '.' arm once or twice, at the start, after a
\* skipped character and on a second line.
PrintPrograms == {<<".">>, <<".", ".">>, <<"x", ".">>, <<"\n", ".">>}

\* The struct as the variables hold it.
Self ==
    [mem |-> mem, mem_ptr |-> mem_ptr, prog |-> prog, pc |-> pc,
     stack |-> stack, sp |-> sp, lin |-> lin, col |-> col]

\* The variables take the struct s.
Store(s) ==
    /\ mem' = s.mem
    /\ mem_ptr' = s.mem_ptr
    /\ prog' = s.prog
    /\ pc' = s.pc
    /\ stack' = s.stack
    /\ sp' = s.sp
    /\ lin' = s.lin
    /\ col' = s.col

\* The bytes standard output has received for the chars o.
RECURSIVE stdout_bytes(_)
stdout_bytes(o) ==
    IF o = <<>> THEN <<>> ELSE stdout_bytes(SubSeq(o, 1, Len(o) - 1)) \o utf8(o[Len(o)])

\* The bytes the '.' arm has written to standard output so far.
Stdout == stdout_bytes(out)

\* What next_instruction does in the current state.
Pull == next_instruction(Self)

\* An iteration of run's loop that pulled ch and whose arm returned r.
Returned(ch, r) ==
    /\ Store(r.self)
    /\ ins' = ch
    /\ status' = r.st
    /\ phase' = after_arm(r.st, r.self, report).phase
    /\ report' = after_arm(r.st, r.self, report).report

\* An iteration of run's loop that pulled ch and whose arm panicked, leaving s.
Panicked(ch, s) ==
    /\ Store(s)
    /\ ins' = ch
    /\ phase' = "panic"
    /\ UNCHANGED <<status, report>>

Init ==
    /\ prog \in Programs
    /\ mem = new(prog).mem
    /\ mem_ptr = new(prog).mem_ptr
    /\ pc = new(prog).pc
    /\ stack = new(prog).stack
    /\ sp = new(prog).sp
    /\ lin = new(prog).lin
    /\ col = new(prog).col
    /\ ins = ""
    /\ status = Ok
    /\ phase = "running"
    /\ report = <<>>
    /\ out = <<>>
    /\ stdin_read = <<>>
    /\ build \in Builds

\* The struct when the '.' arm is reached with a cell v that a run has counted
\* up to: as constructed, but for the current cell.
InitPrint ==
    /\ prog \in PrintPrograms
    /\ \E v \in PrintCells : mem = write_to_cell(new(prog), v).mem
    /\ mem_ptr = new(prog).mem_ptr
    /\ pc = new(prog).pc
    /\ stack = new(prog).stack
    /\ sp = new(prog).sp
    /\ lin = new(prog).lin
    /\ col = new(prog).col
    /\ ins = ""
    /\ status = Ok
    /\ phase = "running"
    /\ report = <<>>
    /\ out = <<>>
    /\ stdin_read = <<>>
    /\ build \in Builds

Left ==
    /\ phase = "running"
    /\ Pull.some /\ Pull.ch = "<"
    /\ Returned("<", LeftArm(Pull.self))
    /\ UNCHANGED <<out, stdin_read, build>>

Right ==
    /\ phase = "running"
    /\ Pull.some /\ Pull.ch = ">"
    /\ Returned(">", RightArm(Pull.self))
    /\ UNCHANGED <<out, stdin_read, build>>

Inc ==
    /\ phase = "running"
    /\ Pull.some /\ Pull.ch = "+"
    /\ Returned("+", IncArm(Pull.self))
    /\ UNCHANGED <<out, stdin_read, build>>

Dec ==
    /\ phase = "running"
    /\ Pull.some /\ Pull.ch = "-"
    /\ Returned("-", DecArm(Pull.self))
    /\ UNCHANGED <<out, stdin_read, build>>

Open ==
    /\ phase = "running"
    /\ Pull.some /\ Pull.ch = "["
    /\ Returned("[", OpenArm(Pull.self))
    /\ UNCHANGED <<out, stdin_read, build>>

Close ==
    /\ phase = "running"
    /\ Pull.some /\ Pull.ch = "]"
    /\ LET r == CloseArm(Pull.self, build) IN
       IF r.panic THEN Panicked("]", r.self) ELSE Returned("]", r)
    /\ UNCHANGED <<out, stdin_read, build>>

\* The '.' arm; the model follows a run until it has printed MaxOut values.
Dot ==
    /\ phase = "running"
    /\ Pull.some /\ Pull.ch = "."
    /\ Len(out) < MaxOut
    /\ LET r == DotArm(Pull.self, out) IN
       /\ Returned(".", [self |-> Pull.self, st |-> r.st])
       /\ out' = r.out
    /\ UNCHANGED <<stdin_read, build>>

\* Standard input holds s when the ',' arm starts, and the arm takes all of it
\* (the bytes it does not take stay for the next ','); standard input holds
\* at most MaxIn bytes in all, and read_exact fails at its end.
Comma ==
    /\ phase = "running"
    /\ Pull.some /\ Pull.ch = ","
    /\ \E n \in 0..(MaxIn - Len(stdin_read)) :
       \E s \in [1..n -> InputBytes] :
          LET r == CommaArm(Pull.self, s) IN
          /\ r.used = Len(s)
          /\ stdin_read' = stdin_read \o s
          /\ IF r.panic THEN Panicked(",", r.self) ELSE Returned(",", r)
    /\ UNCHANGED <<out, build>>

\* next_instruction returns None: run leaves its loop.
Exhausted ==
    /\ phase = "running"
    /\ ~Pull.some
    /\ Store(Pull.self)
    /\ phase' = "done"
    /\ UNCHANGED <<ins, status, report, out, stdin_read, build>>

Next ==
    \/ Left
    \/ Right
    \/ Inc
    \/ Dec
    \/ Open
    \/ Close
    \/ Dot
    \/ Comma
    \/ Exhausted

Spec == Init /\ [][Next]_vars

-----------------------------------------------------------------------------
(* Vocabulary of the properties, defined on the program text alone.        *)

\* How many of the offsets a..b of p hold the character c.
Count(p, c, a, b) == Cardinality({k \in a..b : p[k + 1] = c})

\* Offset j holds the ']' that closes the '[' at offset i: the first ']' after
\* i with as many '[' as ']' strictly between the two.
Closes(p, i, j) ==
    /\ i < j /\ j < Len(p)
    /\ p[j + 1] = "]"
    /\ Count(p, "[", i + 1, j - 1) = Count(p, "]", i + 1, j - 1)
    /\ \A k \in (i + 1)..(j - 1) :
          p[k + 1] = "]" => Count(p, "[", i + 1, k - 1) # Count(p, "]", i + 1, k - 1)

\* The offsets from k on that hold an instruction.
InstrOffsets(p, k) == {i \in k..(Len(p) - 1) : p[i + 1] \in Instructions}

\* The least element of a non-empty set of integers.
Least(S) == CHOOSE x \in S : \A y \in S : x <= y

\* The greatest element of a non-empty set of integers.
Greatest(S) == CHOOSE x \in S : \A y \in S : y <= x

\* The instruction about to be pulled is c, at offset Pull.self.pc - 1.
Pulling(c) == phase = "running" /\ Pull.some /\ Pull.ch = c

\* The number of frames on the stack.
Depth == Len(stack) \div 3

\* Line and column of offset k of p: 1 plus the newlines before k, and 1 plus
\* the characters between the last of them (or the start) and k.
LineAt(p, k) == 1 + Count(p, "\n", 0, k - 1)
ColAt(p, k) ==
    LET nls == {i \in 0..(k - 1) : p[i + 1] = "\n"} IN
    IF nls = {} THEN 1 + k ELSE k - Greatest(nls)

-----------------------------------------------------------------------------
(* The properties.                                                         *)

\* C1: executing '[' when the current cell is 0 and a matching ']' exists at
\* offset j pushes no frame: stack, tape and pointer are unchanged, the offset
\* becomes j + 1 and the run goes on, so that the next instruction pulled is
\* the first one at an offset greater than j.
C1_ZeroSkip ==
    [][\A j \in 0..(Len(prog) - 1) :
          (Pulling("[") /\ read_cell(Self) = 0 /\ Closes(prog, Pull.self.pc - 1, j))
          => /\ stack' = stack /\ sp' = sp
             /\ mem' = mem /\ mem_ptr' = mem_ptr
             /\ pc' = j + 1
             /\ phase' = "running"
             /\ IF Pull'.some
                THEN Pull'.self.pc - 1 = Least(InstrOffsets(prog, j + 1))
                ELSE InstrOffsets(prog, j + 1) = {}]_vars

\* A '[' with a zero cell has just skipped the body "+" of its loop.
C1_Witness ==
    /\ prog = <<"[", "+", "]">>
    /\ ins = "[" /\ phase = "running"
    /\ pc = 3 /\ read_cell(Self) = 0 /\ stack = <<>>

\* C2 (as claimed): executing ']' with a non-empty frame stack, a non-zero
\* cell sets offset, line and column to the top frame's triple and keeps the
\* stack; a zero cell pops exactly one frame and leaves the offset just past
\* the ']'. Tape and pointer are unchanged either way.
C2_CloseRepeatsOrExits ==
    [][(Pulling("]") /\ stack # <<>>)
       => /\ IF read_cell(Self) # 0
             THEN /\ pc' = stack[Len(stack) - 2]
                  /\ lin' = stack[Len(stack) - 1]
                  /\ col' = stack[Len(stack)]
                  /\ stack' = stack /\ sp' = sp
             ELSE /\ stack' = SubSeq(stack, 1, Len(stack) - 3)
                  /\ sp' = sp - 1
                  /\ pc' = Pull.self.pc
          /\ mem' = mem /\ mem_ptr' = mem_ptr]_vars

\* C3: executing ']' while the frame stack is empty halts the run with the
\* error of the ']' arm, whatever the current cell holds, and leaves tape,
\* pointer and stack unchanged.
C3_UnpairedClose ==
    [][(Pulling("]") /\ stack = <<>>)
       => /\ phase' = "error"
          /\ status' = Err("Obsolete loop close bracket")
          /\ mem' = mem /\ mem_ptr' = mem_ptr
          /\ stack' = stack /\ sp' = sp]_vars

\* A ']' met an empty stack with a non-zero cell and halted the run.
C3_Witness ==
    /\ ins = "]" /\ phase = "error"
    /\ status = Err("Obsolete loop close bracket")
    /\ read_cell(Self) # 0 /\ stack = <<>>

\* C4: executing a '[' that no later ']' closes halts the run with the
\* unterminated-loop error, whether the current cell is zero or not, and
\* pushes no frame.
C4_UnterminatedOpen ==
    [][(Pulling("[") /\ ~\E j \in 0..(Len(prog) - 1) : Closes(prog, Pull.self.pc - 1, j))
       => /\ phase' = "error"
          /\ status' = Err("Loop not closed")
          /\ stack' = stack /\ sp' = sp]_vars

\* An unclosed '[' halted the run with a non-zero cell.
C4_Witness ==
    /\ ins = "[" /\ phase = "error"
    /\ status = Err("Loop not closed")
    /\ read_cell(Self) # 0 /\ stack = <<>>

\* C5: pointer moves never wrap. '<' at index 0 yields the underflow error and
\* '>' at the last index yields the overflow error, the pointer unchanged; in
\* every other case the pointer changes by exactly one and no error is raised.
C5_PointerMoves ==
    [][/\ Pulling("<")
          => IF mem_ptr = 0
             THEN /\ phase' = "error"
                  /\ status' = Err("Tried to access memory out of range (underflow)")
                  /\ mem_ptr' = mem_ptr
             ELSE /\ phase' = "running" /\ status'.ok
                  /\ mem_ptr' = mem_ptr - 1
       /\ Pulling(">")
          => IF mem_ptr = MemSize - 1
             THEN /\ phase' = "error"
                  /\ status' = Err("Tried to access memory out of range (overflow)")
                  /\ mem_ptr' = mem_ptr
             ELSE /\ phase' = "running" /\ status'.ok
                  /\ mem_ptr' = mem_ptr + 1]_vars

\* A '>' at the last cell of the tape halted the run.
C5_Witness ==
    /\ ins = ">" /\ phase = "error"
    /\ status = Err("Tried to access memory out of range (overflow)")
    /\ mem_ptr = MemSize - 1

\* C6: cell arithmetic never wraps. '+' on a cell at the maximum yields the
\* overflow error and '-' on a cell at 0 yields the negative-value error, the
\* cell unchanged; in every other case only the cell under the pointer
\* changes, by exactly one.
C6_CellArithmetic ==
    [][/\ Pulling("+")
          => IF read_cell(Self) = U32Max
             THEN /\ phase' = "error"
                  /\ status' = Err("Exceeded max cell value")
                  /\ mem' = mem
             ELSE /\ phase' = "running" /\ status'.ok
                  /\ mem' = [mem EXCEPT ![mem_ptr] = mem[mem_ptr] + 1]
       /\ Pulling("-")
          => IF read_cell(Self) = 0
             THEN /\ phase' = "error"
                  /\ status' = Err("Cells cannot have negative values")
                  /\ mem' = mem
             ELSE /\ phase' = "running" /\ status'.ok
                  /\ mem' = [mem EXCEPT ![mem_ptr] = mem[mem_ptr] - 1]]_vars

\* A '+' on a cell holding the maximum halted the run.
C6_Witness ==
    /\ ins = "+" /\ phase = "error"
    /\ status = Err("Exceeded max cell value")
    /\ read_cell(Self) = U32Max

\* C7: in every reachable state the pointer is within [0, size) and every
\* cell is within [0, maximum unsigned value].
C7_TapeInRange ==
    /\ mem_ptr \in 0..(MemSize - 1)
    /\ DOMAIN mem = 0..(MemSize - 1)
    /\ \A i \in DOMAIN mem : mem[i] \in 0..U32Max

\* The pointer is at the last cell and ',' has stored the largest byte there.
C7_Witness ==
    /\ ins = "," /\ phase = "running"
    /\ mem_ptr = MemSize - 1
    /\ read_cell(Self) = U8Max

\* C8 (as claimed): the stack never holds more frames than the maximum of sp.
C8_DepthAtMostI16Max == Depth <= I16Max

\* C8 (amended): the stack never holds more than I16Max + 1 frames (sp never
\* exceeds I16Max), and a push attempted with I16Max + 1 frames on the stack
\* fails with the capacity error and leaves the stack unchanged.
C8_DepthAtMostI16MaxPlusOne ==
    /\ [](Depth <= I16Max + 1 /\ sp <= I16Max)
    /\ [][(Pulling("[") /\ read_cell(Self) # 0 /\ Depth = I16Max + 1
           /\ \E j \in 0..(Len(prog) - 1) : Closes(prog, Pull.self.pc - 1, j))
          => /\ phase' = "error"
             /\ status' = Err("Nested loop limit reached.")
             /\ stack' = stack /\ sp' = sp]_vars

\* A push was refused with I16Max + 1 frames on the stack.
C8_Witness ==
    /\ ins = "[" /\ phase = "error"
    /\ status = Err("Nested loop limit reached.")
    /\ Depth = I16Max + 1

\* C9: an arm that returns Err halts the run on that step, with exactly one
\* error reported and tape, pointer, stack and output as they were; and from
\* a halted-error state nothing changes any more.
C9_ErrorIsFatal ==
    /\ [](/\ Len(report) <= 1
          /\ (phase = "error") <=> (Len(report) = 1)
          /\ (phase = "running") => status.ok)
    /\ [][/\ (phase = "running" /\ ~status'.ok)
             => /\ phase' = "error"
                /\ report' = <<[msg |-> status'.msg, lin |-> lin', col |-> col']>>
                /\ mem' = mem /\ mem_ptr' = mem_ptr
                /\ stack' = stack /\ sp' = sp
                /\ out' = out
          /\ (phase = "error") => UNCHANGED vars]_vars

\* The run halted on an error after it had printed a value.
C9_Witness ==
    /\ phase = "error" /\ Len(report) = 1
    /\ ins = "<" /\ Len(out) = 1

\* C10 (as claimed): in every reachable state line and column are those of
\* the current offset: line is 1 plus the newlines before it, column is 1
\* plus the characters since the last of them.
C10_PositionOfOffset ==
    /\ lin = LineAt(prog, pc)
    /\ col = ColAt(prog, pc)

\* The brackets at the offsets a..b of p are balanced: as many '[' as ']', and
\* no ']' before its '['.
Balanced(p, a, b) ==
    /\ Count(p, "[", a, b) = Count(p, "]", a, b)
    /\ \A k \in a..b : Count(p, "[", a, k) >= Count(p, "]", a, k)

\* The offsets j > i that hold a ']' with balanced brackets between i and j.
BalancedCloses(p, i) ==
    {j \in (i + 1)..(Len(p) - 1) : p[j + 1] = "]" /\ Balanced(p, i + 1, j - 1)}

\* C11: called for the '[' at offset i that the scanner has just consumed,
\* the locator returns the smallest offset j > i that holds a ']' with the
\* brackets strictly between i and j balanced, and returns not-found exactly
\* when there is no such j; the call changes neither cursor, tape nor stack:
\* line, column, tape and pointer are after the '[' step as the scanner left
\* them, and so are offset and stack when nothing is found.
C11_LocatorFindsMatch ==
    /\ [](Pulling("[")
          => LET i == Pull.self.pc - 1
                 r == check_ending_bracket(Pull.self)
             IN  IF BalancedCloses(prog, i) = {}
                 THEN ~r.some
                 ELSE r.some /\ r.val = Least(BalancedCloses(prog, i)))
    /\ [][Pulling("[")
          => /\ lin' = Pull.self.lin /\ col' = Pull.self.col
             /\ mem' = mem /\ mem_ptr' = mem_ptr
             /\ ~check_ending_bracket(Pull.self).some
                => (pc' = Pull.self.pc /\ stack' = stack /\ sp' = sp)]_vars

\* The outer '[' of "+[[]]" has been executed: the locator went over the inner
\* pair and found the ']' at offset 4.
C11_Witness ==
    /\ prog = <<"+", "[", "[", "]", "]">>
    /\ ins = "[" /\ phase = "running"
    /\ pc = 2 /\ sp = 0
    /\ check_ending_bracket(Self) = [some |-> TRUE, val |-> 4]

\* Line and column after the scanner has examined the offsets a..b of p from
\* line l and column c: a line more for every newline, and the column one more
\* for every character, counted from 1 again after the last newline.
LineAfter(p, a, b, l) == l + Count(p, "\n", a, b)
ColAfter(p, a, b, c) ==
    LET nls == {i \in a..b : p[i + 1] = "\n"} IN
    IF nls = {} THEN c + (b - a + 1) ELSE 1 + (b - Greatest(nls))

\* C12: from every cursor a run reaches, next_instruction returns the first
\* character at an offset >= pc that is an instruction and leaves the offset
\* one past it, with line and column advanced over every character examined;
\* when there is none it returns None with the offset at the program's
\* length. It touches nothing else, and it never returns a character that is
\* not an instruction, so the fallback arm of the dispatch is never taken.
C12_ScannerContract ==
    LET I == InstrOffsets(prog, pc)
        last == IF I = {} THEN Len(prog) - 1 ELSE Least(I)
    IN  /\ pc <= Len(prog)
        /\ Pull.some <=> (I # {})
        /\ Pull.some => (Pull.ch = prog[last + 1] /\ Pull.ch \in Instructions)
        /\ ~Pull.some => Pull.ch = ""
        /\ Pull.self.pc = last + 1
        /\ Pull.self.lin = LineAfter(prog, pc, last, lin)
        /\ Pull.self.col = ColAfter(prog, pc, last, col)
        /\ Pull.self = [Self EXCEPT !.pc = Pull.self.pc, !.lin = Pull.self.lin,
                                    !.col = Pull.self.col]

\* The scanner went over a skipped character and a newline to pull the '+' of
\* the second line.
C12_Witness ==
    /\ prog = <<"x", "\n", "+">>
    /\ ins = "+" /\ phase = "running"
    /\ pc = 3 /\ lin = 2 /\ col = 2

\* The bytes read_exact delivers during a step.
Consumed == SubSeq(stdin_read', Len(stdin_read) + 1, Len(stdin_read'))

NextPrint ==
    \/ Dot
    \/ Exhausted

SpecPrint == InitPrint /\ [][NextPrint]_vars

\* v is a Unicode scalar value.
IsScalarValue(v) == (0 <= v /\ v <= 55295) \/ (57344 <= v /\ v <= 1114111)

\* C14: executing '.' with a cell that is a Unicode scalar value (0..0xD7FF or
\* 0xE000..0x10FFFF) appends exactly one value, the cell's, to the output and
\* changes nothing else (the cursor is where the scanner left it); with any
\* other cell the run halts with the could-not-print error and nothing is
\* appended.
C14_DotPrintsScalar ==
    [][Pulling(".")
       => /\ IF IsScalarValue(read_cell(Self))
             THEN /\ out' = Append(out, read_cell(Self))
                  /\ Stdout' = Stdout \o utf8(read_cell(Self))
                  /\ phase' = "running" /\ status' = Ok
                  /\ report' = report
             ELSE /\ out' = out
                  /\ phase' = "error"
                  /\ status' = Err("Could not print character")
          /\ mem' = mem /\ mem_ptr' = mem_ptr
          /\ stack' = stack /\ sp' = sp
          /\ stdin_read' = stdin_read
          /\ pc' = Pull.self.pc /\ lin' = Pull.self.lin /\ col' = Pull.self.col]_vars

\* A '.' on a cell holding the first surrogate halted the run and printed
\* nothing.
C14_Witness ==
    /\ ins = "." /\ phase = "error"
    /\ status = Err("Could not print character")
    /\ read_cell(Self) = 55296
    /\ out = <<>>

\* The step is a loop-repeat jump: a ']' with a frame on the stack and a
\* non-zero cell.
RepeatJump == Pulling("]") /\ stack # <<>> /\ read_cell(Self) # 0

\* C15 (as claimed): on every step that executes an instruction the offset
\* strictly increases, except on a ']' loop-repeat jump, where it becomes the
\* offset stored in the top frame, which is less than the offset the ']' was
\* executed at (the cursor once the scanner has consumed it; with an empty
\* body the stored offset is the very place of the ']'); the '[' zero-skip
\* moves the offset forward.
C15_OffsetIncreases ==
    [][(phase = "running" /\ Pull.some)
       => IF RepeatJump
          THEN /\ pc' = stack[Len(stack) - 2]
               /\ pc' < Pull.self.pc
          ELSE pc' > pc]_vars

\* The top frame of the stack as a triple (offset, line, column).
TopFrame == SubSeq(stack, Len(stack) - 2, Len(stack))

\* C16: a frame pushed by '[' on a non-zero cell is the (offset, line, column)
\* of the cursor just after the '[' was consumed, and a ']' that jumps back
\* to repeat the loop leaves the cursor with the offset, line and column of
\* the top frame, the ones the body was entered with.
C16_FrameIsBodyStart ==
    /\ [][(Pulling("[") /\ read_cell(Self) # 0 /\ stack' # stack)
          => /\ stack' = stack \o <<Pull.self.pc, Pull.self.lin, Pull.self.col>>
             /\ <<pc', lin', col'>> = <<Pull.self.pc, Pull.self.lin, Pull.self.col>>]_vars
    /\ [][(RepeatJump /\ phase' = "running")
          => <<pc', lin', col'>> = TopFrame]_vars

\* The offsets below k of the '[' of p that enclose offset k, outermost
\* first: the '[' before k that no ']' before k closes. acc holds the ones
\* open before offset i.
RECURSIVE EnclosingFrom(_, _, _, _)
EnclosingFrom(p, i, k, acc) ==
    IF i >= k THEN acc
    ELSE IF p[i + 1] = "[" THEN EnclosingFrom(p, i + 1, k, Append(acc, i))
    ELSE IF p[i + 1] = "]" /\ acc # <<>>
         THEN EnclosingFrom(p, i + 1, k, SubSeq(acc, 1, Len(acc) - 1))
    ELSE EnclosingFrom(p, i + 1, k, acc)

Enclosing(p, k) == EnclosingFrom(p, 0, k, <<>>)

\* The stored offsets of the frames of the stack, bottom to top.
FrameOffsets == [n \in 1..Depth |-> stack[3 * n - 2]]

\* C17: between instruction steps of a running program the stack holds one
\* frame for each '[' that encloses the current offset, outermost first, each
\* storing that '[' offset plus one; and a ']' executed with a non-empty stack
\* repeats, or exits by popping, the loop of its own matching '['.
C17_StackIsEnclosingLoops ==
    /\ [](phase = "running"
          => FrameOffsets = [n \in 1..Len(Enclosing(prog, pc)) |-> Enclosing(prog, pc)[n] + 1])
    /\ [][(Pulling("]") /\ stack # <<>>)
          => LET own == Enclosing(prog, Pull.self.pc - 1) IN
             /\ own # <<>>
             /\ IF read_cell(Self) # 0
                THEN pc' = own[Len(own)] + 1 /\ stack' = stack
                ELSE /\ stack[Len(stack) - 2] = own[Len(own)] + 1
                     /\ stack' = SubSeq(stack, 1, Len(stack) - 3)]_vars

\* C18 (as claimed): whenever the run has halted with success the frame stack
\* is empty and no error has been reported.
C18_SuccessHasEmptyStack ==
    (phase = "done") => (stack = <<>> /\ sp = -1 /\ status = Ok /\ report = <<>>)

\* p holds no ']'.
NoClose(p) == \A k \in 1..Len(p) : p[k] # "]"

\* The runs of the programs without ']': the scanner never returns a ']', so
\* the ']' arm is never dispatched.
InitNoClose == Init /\ NoClose(prog)

NextNoClose ==
    \/ Left
    \/ Right
    \/ Inc
    \/ Dec
    \/ Open
    \/ Dot
    \/ Comma
    \/ Exhausted

\* run's loop is the only thread of control and nothing suspends it but the
\* read of ',': an iteration that can be taken is taken.
SpecNoClose == InitNoClose /\ [][NextNoClose]_vars /\ WF_vars(NextNoClose)

\* The run has halted, with success or with an error.
Halted == phase \in {"done", "error"}

\* Standard input ended before a ',' was supplied a byte that is no newline.
Starved == phase = "panic" /\ ins = ","

\* C19: a run of a program without ']' halts, with success or an error,
\* unless a ',' is not supplied a byte; every instruction it executes takes
\* the offset at least one character further and never beyond the length of
\* the program, so it executes no more instructions than the program has
\* characters. In any program the only step that does not move the offset
\* forward is a ']' loop-repeat jump.
C19_NoCloseTerminates ==
    /\ [](NoClose(prog) => <>(Halted \/ Starved))
    /\ [](pc <= Len(prog))
    /\ [][(phase = "running" /\ Pull.some /\ ~RepeatJump)
          => (pc' >= pc + 1 /\ pc' <= Len(prog))]_vars
    /\ [][(NoClose(prog) /\ phase = "running")
          => (~Pulling("]") /\ (pc' > pc \/ phase' = "done"))]_vars

\* A program without ']' was supplied a byte by its ',' and has halted with
\* success after its three instructions.
C19_Witness ==
    /\ prog = <<",", "+", ".">>
    /\ phase = "done" /\ pc = 3
    /\ Len(stdin_read) >= 1 /\ Len(out) = 1

\* C20 (as claimed): in every reachable state sp is at least -1 and the
\* vector holds 3 * (sp + 1) elements, so that with sp >= 0 stack_peek
\* returns the top three elements and stack_pop returns Ok, neither of them
\* panicking, and with an empty stack each of them returns its error value.
C20_StackOpsInRange ==
    /\ sp >= -1
    /\ Len(stack) = 3 * (sp + 1)
    /\ IF sp >= 0
       THEN /\ stack_peek(Self, build) =
                 [kind |-> "ok", pc |-> stack[Len(stack) - 2],
                  lin |-> stack[Len(stack) - 1], col |-> stack[Len(stack)]]
            /\ stack_pop(Self).st = Ok
       ELSE /\ stack_peek(Self, build).kind = "err"
            /\ stack_pop(Self).st = Err("Unpaired ']'.")

====
